---- MODULE Spec2Model ----
(***************************************************************************)
(* Blog lead crawler backend.                                              *)
(*                                                                         *)
(* Three programs share this module:                                       *)
(*   - src/api.py: the FastAPI service with its long-lived crawler worker  *)
(*     (PostgreSQL tables blog_pages, outbound_links, commercial_sites);   *)
(*   - src/crawler/casino_worker.py: the homepage enrichment worker on     *)
(*     commercial_sites;                                                   *)
(*   - the stand-alone MySQL scripts (crawl_page_outbound_links.py,        *)
(*     extract_commercial_links.py, detect_casino_sites.py).               *)
(*                                                                         *)
(* Strings the code takes apart (URLs, hrefs) are sequences of tokens, so  *)
(* that strip, rstrip, replace, startswith and split act on them as the    *)
(* code's string operations do.  A token is a piece the code never cuts.   *)
(***************************************************************************)
EXTENDS Integers, Sequences, FiniteSets, TLC

VARIABLES
    blog_pages,        \* api.py: table blog_pages, a sequence of rows (id = index)
    outbound_links,    \* api.py: table outbound_links, a sequence of rows
    commercial_sites,  \* api.py / casino_worker.py: table commercial_sites, domain -> row
    DB_LOCK,           \* api.py:55, one threading.Lock per process: holder or Free
    pc,                \* crawler_worker thread: position in crawler_worker / crawler_worker_single
    blog,              \* crawler_worker_single: local `blog` (the selected row)
    links,             \* crawler_worker_single: local `links` (the parsed anchors)
    exc,               \* crawler_worker_single: the exception caught or escaping
    cpc,               \* casino_worker process: position in casino_worker's loop
    casino_row,        \* casino_worker: local `row` (the selected commercial_domain)
    result,            \* casino_worker: local `result` (what enrich_domain returned)
    blogs,             \* MySQL scripts: table blogs
    my_blog_pages,     \* MySQL scripts: table blog_pages (create_tables.py:23-31)
    commercial_links,  \* MySQL scripts: table commercial_links
    page_outbound_links,       \* MySQL scripts: table page_outbound_links
    commercial_site_analysis,  \* MySQL scripts: table commercial_site_analysis, domain -> row
    script,            \* the MySQL script that is running: its name, the rows left to loop
                       \* over, and what the last requests.get gave (local `r`)
    runs               \* how many script runs have started

crawlerVars == <<blog_pages, outbound_links, commercial_sites, DB_LOCK, pc, blog, links, exc>>

casinoVars == <<cpc, casino_row, result>>

scriptVars ==
    <<blogs, my_blog_pages, commercial_links, page_outbound_links,
      commercial_site_analysis, script, runs>>

None == "None"
Free == "free"

\* SQL NULL in a text column, apart from every text the column can hold ('' included)
NULL == <<"NULL">>

\* the locals of a thread that is between two roots
NoBlog == [id |-> 0, blog_url |-> <<>>]
NoLinks == <<>>

\* the locals of a casino_worker that is between two domains
NoRow == <<>>
NoResult == [kind |-> "unset"]

----------------------------------------------------------------------------
(* String helpers on token sequences.                                      *)

SchemeTokens == {"https://", "http://"}

RECURSIVE lstrip(_, _)
lstrip(s, ch) == IF s # <<>> /\ Head(s) \in ch THEN lstrip(Tail(s), ch) ELSE s

RECURSIVE rstrip(_, _)
rstrip(s, ch) ==
    IF s # <<>> /\ s[Len(s)] \in ch THEN rstrip(SubSeq(s, 1, Len(s) - 1), ch) ELSE s

Whitespace == {" "}

strip(s) == rstrip(lstrip(s, Whitespace), Whitespace)

\* s.replace(tok, ""): every occurrence goes.
RECURSIVE remove(_, _)
remove(s, toks) ==
    IF s = <<>> THEN <<>>
    ELSE IF Head(s) \in toks THEN remove(Tail(s), toks)
    ELSE <<Head(s)>> \o remove(Tail(s), toks)

\* s.split("/")[0]
RECURSIVE before_slash(_)
before_slash(s) ==
    IF s = <<>> \/ Head(s) = "/" THEN <<>> ELSE <<Head(s)>> \o before_slash(Tail(s))

\* urlparse(url).scheme
url_scheme(url) ==
    IF url # <<>> /\ Head(url) \in SchemeTokens THEN Head(url) ELSE ""

\* urlparse(url).netloc: what follows "//" up to the next "/"
netloc(url) ==
    IF url # <<>> /\ Head(url) \in SchemeTokens THEN before_slash(Tail(url)) ELSE <<>>

\* urlparse(url).path
RECURSIVE from_slash(_)
from_slash(s) ==
    IF s = <<>> THEN <<>> ELSE IF Head(s) = "/" THEN s ELSE from_slash(Tail(s))

url_path(url) ==
    IF url # <<>> /\ Head(url) \in SchemeTokens THEN from_slash(Tail(url)) ELSE url

is_valid_url(url) == url_scheme(url) \in SchemeTokens /\ netloc(url) # <<>>

extract_domain(url) ==
    LET u1 == remove(url, SchemeTokens)
        u2 == IF u1 # <<>> /\ Head(u1) = "www." THEN Tail(u1) ELSE u1
    IN  strip(before_slash(u2))

\* urljoin(base, href) for the href shapes of PageContents
urljoin(base, href) ==
    IF href = <<>> THEN base
    ELSE IF Head(href) \in SchemeTokens \cup {"mailto:"} THEN href
    ELSE IF Head(href) = "/" THEN <<url_scheme(base)>> \o netloc(base) \o href
    ELSE LET p == url_path(base)
             dir == IF p = <<>> THEN <<"/">>
                    ELSE rstrip(p, {t \in {p[i] : i \in 1..Len(p)} : t # "/"})
         IN  <<url_scheme(base)>> \o netloc(base) \o dir \o href

----------------------------------------------------------------------------
(* Inputs.                                                                 *)

RootA == <<"https://", "a.test">>
RootB == <<"http://", "www.", "b.test">>

\* bodies of POST /crawl
CrawlRequests ==
    { RootA,
      RootA \o <<"/">>,
      <<" ">> \o RootA \o <<"/", " ">>,
      RootB,
      <<"a.test">>,
      <<>> }

\* an <a href> element: href, rel, text
Anchor(href, rel, text) == [href |-> href, rel |-> rel, text |-> text]

ExtC == <<"https://", "www.", "c.test", "/", "x">>
ExtD == <<"http://", "d.test">>
Facebook == <<"https://", "www.", "facebook.com", "/", "x">>

\* what soup.find_all("a", href=True) can return for a fetched root page
PageContents ==
    { <<>>,
      << Anchor(ExtC, {}, <<"c">>), Anchor(ExtC, {"nofollow"}, <<"c">>) >>,
      << Anchor(<<"/", "about">>, {}, <<"a">>), Anchor(ExtD, {}, <<"d">>) >>,
      << Anchor(<<"#">>, {}, <<>>), Anchor(<<" ">>, {}, <<>>), Anchor(ExtD, {"sponsored"}, <<"d">>),
         Anchor(Facebook, {"ugc"}, <<"f">>) >> }

----------------------------------------------------------------------------
(* Processes and threads of api.py.                                        *)

Procs == {"p1", "p2"}

\* crawler_worker threads, and the process each runs in
CrawlerWorkers == {"w1", "w2", "w3"}

ProcOf(w) == IF w = "w3" THEN "p2" ELSE "p1"

\* casino_worker.py processes
CasinoWorkers == {"k1", "k2"}

InitCasinoWorkers ==
    /\ cpc = [k \in CasinoWorkers |-> "loop"]
    /\ casino_row = [k \in CasinoWorkers |-> NoRow]
    /\ result = [k \in CasinoWorkers |-> NoResult]

NoScript == [name |-> "none", todo |-> <<>>, r |-> None]

\* the MySQL database as create_tables.py and add_casino_table.py leave it
InitScripts ==
    /\ blogs = <<>>
    /\ my_blog_pages = <<>>
    /\ commercial_links = <<>>
    /\ page_outbound_links = <<>>
    /\ commercial_site_analysis = <<>>
    /\ script = NoScript
    /\ runs = 0

Init ==
    /\ blog_pages = <<>>
    /\ outbound_links = <<>>
    /\ commercial_sites = <<>>
    /\ DB_LOCK = [p \in Procs |-> Free]
    /\ pc = [w \in CrawlerWorkers |-> "loop"]
    /\ blog = [w \in CrawlerWorkers |-> NoBlog]
    /\ links = [w \in CrawlerWorkers |-> NoLinks]
    /\ exc = [w \in CrawlerWorkers |-> None]
    /\ InitCasinoWorkers
    /\ InitScripts

----------------------------------------------------------------------------
(* POST /crawl                                                             *)

RowIds(table) == 1..Len(table)

\* InsertRoot as a bug would have it: ON CONFLICT (blog_url) DO UPDATE SET crawl_status = 'pending'
InsertRoot_Requeue(table, blog_url) ==
    IF \E i \in RowIds(table) : table[i].blog_url = blog_url
    THEN [i \in RowIds(table) |->
            IF table[i].blog_url = blog_url
            THEN [table[i] EXCEPT !.crawl_status = "pending"] ELSE table[i]]
    ELSE Append(table, [blog_url |-> blog_url, is_root |-> TRUE,
                        crawl_status |-> "pending",
                        first_crawled |-> Len(table) + 1])

\* InsertRoot as a bug would have it: a plain INSERT, no conflict clause
InsertRoot_NoConflict(table, blog_url) ==
    Append(table, [blog_url |-> blog_url, is_root |-> TRUE,
                   crawl_status |-> "pending",
                   first_crawled |-> Len(table) + 1])

\* INSERT INTO blog_pages ... ON CONFLICT (blog_url) DO NOTHING
InsertRoot(table, blog_url) ==
    IF \E i \in RowIds(table) : table[i].blog_url = blog_url
    THEN table
    ELSE Append(table, [blog_url |-> blog_url, is_root |-> TRUE,
                        crawl_status |-> "pending",
                        first_crawled |-> Len(table) + 1])

\* crawl_blog, run by a request thread of process p
crawl_blog(p, req) ==
    LET blog_url == rstrip(strip(req), {"/"}) IN
    /\ DB_LOCK[p] = Free
    /\ IF blog_url = <<>> \/ ~is_valid_url(blog_url)
       THEN UNCHANGED blog_pages
       ELSE blog_pages' = InsertRoot(blog_pages, blog_url)
    /\ UNCHANGED <<outbound_links, commercial_sites, DB_LOCK, pc, blog, links, exc>>

----------------------------------------------------------------------------
(* crawler_worker_single, one step per database statement or fetch.        *)

PendingRoots(table) ==
    {i \in RowIds(table) : table[i].is_root /\ table[i].crawl_status = "pending"}

\* SELECT ... WHERE is_root AND crawl_status = 'pending' ORDER BY first_crawled ASC LIMIT 1
SelectPendingRoot(table) ==
    {i \in PendingRoots(table) :
        \A j \in PendingRoots(table) : table[i].first_crawled <= table[j].first_crawled}

\* UPDATE blog_pages SET crawl_status = status WHERE id = id
SetStatus(table, id, status) ==
    [i \in RowIds(table) |->
        IF i = id THEN [table[i] EXCEPT !.crawl_status = status] ELSE table[i]]

\* api.py:154-168: take DB_LOCK, connect, SELECT the next pending root
SelectPending(w) ==
    /\ pc[w] = "loop"
    /\ DB_LOCK[ProcOf(w)] = Free
    /\ \/ \* a row comes back: the lock stays held up to the UPDATE's commit
          /\ \E i \in SelectPendingRoot(blog_pages) :
                blog' = [blog EXCEPT ![w] = [id |-> i, blog_url |-> blog_pages[i].blog_url]]
          /\ DB_LOCK' = [DB_LOCK EXCEPT ![ProcOf(w)] = w]
          /\ pc' = [pc EXCEPT ![w] = "selected"]
          /\ UNCHANGED exc
       \/ \* no row: return None, and crawler_worker sleeps
          /\ SelectPendingRoot(blog_pages) = {}
          /\ pc' = [pc EXCEPT ![w] = "sleep"]
          /\ UNCHANGED <<blog, DB_LOCK, exc>>
       \/ \* get_conn or execute raises: nothing catches it up to the thread's top
          /\ pc' = [pc EXCEPT ![w] = "dead"]
          /\ exc' = [exc EXCEPT ![w] = "OperationalError"]
          /\ UNCHANGED <<blog, DB_LOCK>>
    /\ UNCHANGED <<blog_pages, outbound_links, commercial_sites, links>>

\* api.py:170-175: UPDATE ... SET crawl_status = 'in_progress' WHERE id = %s; commit
ClaimRoot(table, id) == SetStatus(table, id, "in_progress")

ClaimUpdate(w) ==
    /\ pc[w] = "selected"
    /\ DB_LOCK' = [DB_LOCK EXCEPT ![ProcOf(w)] = Free]
    /\ \/ /\ blog_pages' = ClaimRoot(blog_pages, blog[w].id)
          /\ pc' = [pc EXCEPT ![w] = "crawling"]
          /\ UNCHANGED <<blog, exc>>
       \/ \* the UPDATE or the commit raises: rolled back, the thread ends
          /\ pc' = [pc EXCEPT ![w] = "dead"]
          /\ exc' = [exc EXCEPT ![w] = "OperationalError"]
          /\ blog' = [blog EXCEPT ![w] = NoBlog]
          /\ UNCHANGED blog_pages
    /\ UNCHANGED <<outbound_links, commercial_sites, links>>

\* what safe_fetch(blog_url) can do: a response with a status, None (SSLError and the
\* http retry failed), or another requests exception, which safe_fetch does not catch
FetchOutcomes == {"200", "404", "None", "ConnectionError"}

\* api.py:181-187
Fetch(w) ==
    /\ pc[w] = "crawling"
    /\ \E resp \in FetchOutcomes :
          IF resp = "200"
          THEN /\ \E content \in PageContents : links' = [links EXCEPT ![w] = content]
               /\ pc' = [pc EXCEPT ![w] = "parsed"]
               /\ UNCHANGED exc
          ELSE /\ exc' = [exc EXCEPT ![w] =
                            IF resp = "ConnectionError" THEN resp ELSE "Unreachable"]
               /\ pc' = [pc EXCEPT ![w] = "except"]
               /\ UNCHANGED links
    /\ UNCHANGED <<blog_pages, outbound_links, commercial_sites, DB_LOCK, blog>>

AnchorMax == 255

\* a.get_text(strip=True)[:255]
anchor_text(a) ==
    LET t == strip(a.text) IN SubSeq(t, 1, IF Len(t) < AnchorMax THEN Len(t) ELSE AnchorMax)

\* the unique key of outbound_links that ON CONFLICT DO NOTHING answers to
OutboundConflict(table, row) ==
    \E i \in RowIds(table) :
        table[i].blog_page_id = row.blog_page_id /\ table[i].url = row.url

\* api.py:201-206
InsertOutboundLink(table, row) ==
    IF OutboundConflict(table, row) THEN table ELSE Append(table, row)

DefaultIsCasino == FALSE

\* api.py:208-212
InsertCommercialSite(sites, domain) ==
    IF domain \in DOMAIN sites THEN sites
    ELSE sites @@ (domain :> [commercial_domain |-> domain, meta_title |-> NULL,
                              meta_description |-> NULL, is_casino |-> DefaultIsCasino])

\* api.py:193-195
SkipHref(href) == href = <<>> \/ Head(href) = "#"

\* LinkRow as a bug would have it: the domain taken as urlparse's netloc, www. kept
LinkRow_Netloc(blog_id, blog_url, a) ==
    LET full_url == urljoin(blog_url, strip(a.href)) IN
    [blog_page_id |-> blog_id, url |-> full_url,
     commercial_domain |-> netloc(full_url),
     anchor_text |-> anchor_text(a), is_dofollow |-> TRUE]

\* api.py:197-206: the row one anchor gives
LinkRow(blog_id, blog_url, a) ==
    LET full_url == urljoin(blog_url, strip(a.href)) IN
    [blog_page_id |-> blog_id, url |-> full_url,
     commercial_domain |-> extract_domain(full_url),
     anchor_text |-> anchor_text(a), is_dofollow |-> TRUE]

\* api.py:192-212: the loop over links, on the pair <<outbound_links, commercial_sites>>
RECURSIVE RecordLinks(_, _, _, _)
RecordLinks(as, blog_id, blog_url, tables) ==
    IF as = <<>> THEN tables
    ELSE IF SkipHref(strip(Head(as).href))
         THEN RecordLinks(Tail(as), blog_id, blog_url, tables)
         ELSE LET row == LinkRow(blog_id, blog_url, Head(as)) IN
              RecordLinks(Tail(as), blog_id, blog_url,
                          << InsertOutboundLink(tables[1], row),
                             InsertCommercialSite(tables[2], row.commercial_domain) >>)

\* api.py:189-219: one transaction under DB_LOCK
WriteLinks(w) ==
    /\ pc[w] = "parsed"
    /\ DB_LOCK[ProcOf(w)] = Free
    /\ \/ LET t == RecordLinks(links[w], blog[w].id, blog[w].blog_url,
                               <<outbound_links, commercial_sites>>) IN
          /\ outbound_links' = t[1]
          /\ commercial_sites' = t[2]
          /\ blog_pages' = SetStatus(blog_pages, blog[w].id, "done")
          /\ pc' = [pc EXCEPT ![w] = "sleep"]
          /\ blog' = [blog EXCEPT ![w] = NoBlog]
          /\ UNCHANGED exc
       \/ \* a statement or the commit raises: rolled back, caught at api.py:221
          /\ exc' = [exc EXCEPT ![w] = "DatabaseError"]
          /\ pc' = [pc EXCEPT ![w] = "except"]
          /\ UNCHANGED <<blog_pages, outbound_links, commercial_sites, blog>>
    /\ links' = [links EXCEPT ![w] = NoLinks]
    /\ UNCHANGED DB_LOCK

\* HandleFailure as a bug would have it: the status is written and the exception raised again
HandleFailure_Reraise(w) ==
    /\ pc[w] = "except"
    /\ DB_LOCK[ProcOf(w)] = Free
    /\ blog_pages' = SetStatus(blog_pages, blog[w].id, "failed")
    /\ pc' = [pc EXCEPT ![w] = "dead"]
    /\ blog' = [blog EXCEPT ![w] = NoBlog]
    /\ UNCHANGED <<outbound_links, commercial_sites, DB_LOCK, links, exc>>

\* api.py:221-231: the except block
HandleFailure(w) ==
    /\ pc[w] = "except"
    /\ DB_LOCK[ProcOf(w)] = Free
    /\ \/ /\ blog_pages' = SetStatus(blog_pages, blog[w].id, "failed")
          /\ pc' = [pc EXCEPT ![w] = "sleep"]
          /\ exc' = [exc EXCEPT ![w] = None]
       \/ \* the handler's own connect, UPDATE or commit raises: the thread ends
          /\ pc' = [pc EXCEPT ![w] = "dead"]
          /\ exc' = [exc EXCEPT ![w] = "OperationalError"]
          /\ UNCHANGED blog_pages
    /\ blog' = [blog EXCEPT ![w] = NoBlog]
    /\ UNCHANGED <<outbound_links, commercial_sites, DB_LOCK, links>>

\* api.py:238-241: crawler_worker_single returned (always None): time.sleep(10), loop
WakeUp(w) ==
    /\ pc[w] = "sleep"
    /\ pc' = [pc EXCEPT ![w] = "loop"]
    /\ UNCHANGED <<blog_pages, outbound_links, commercial_sites, DB_LOCK, blog, links, exc>>

----------------------------------------------------------------------------
(* GET /export/output-2                                                    *)

LinksTo(d) == {i \in RowIds(outbound_links) : outbound_links[i].commercial_domain = d}

\* ROUND(100.0 * SUM(is_dofollow::int) / NULLIF(COUNT(*), 0), 2), in hundredths
dofollow_percent(rows) ==
    LET n == Cardinality(rows)
        k == Cardinality({i \in rows : outbound_links[i].is_dofollow})
    IN  IF n = 0 THEN None ELSE (2 * 10000 * k + n) \div (2 * n)

\* api.py:298-317: outbound_links JOIN commercial_sites, grouped by the site
export_output_2 ==
    { [commercial_domain |-> d,
       total_links |-> Cardinality(LinksTo(d)),
       blogs_count |-> Cardinality({outbound_links[i].blog_page_id : i \in LinksTo(d)}),
       dofollow_percent |-> dofollow_percent(LinksTo(d)),
       meta_title |-> commercial_sites[d].meta_title,
       meta_description |-> commercial_sites[d].meta_description,
       is_casino |-> commercial_sites[d].is_casino]
      : d \in {e \in DOMAIN commercial_sites : LinksTo(e) # {}} }

\* a step of api.py: a request thread's or a crawler thread's
Next ==
    \/ \E p \in Procs, req \in CrawlRequests :
          crawl_blog(p, req) /\ UNCHANGED <<casinoVars, scriptVars>>
    \/ \E w \in CrawlerWorkers : SelectPending(w) /\ UNCHANGED <<casinoVars, scriptVars>>
    \/ \E w \in CrawlerWorkers : ClaimUpdate(w) /\ UNCHANGED <<casinoVars, scriptVars>>
    \/ \E w \in CrawlerWorkers : Fetch(w) /\ UNCHANGED <<casinoVars, scriptVars>>
    \/ \E w \in CrawlerWorkers : WriteLinks(w) /\ UNCHANGED <<casinoVars, scriptVars>>
    \/ \E w \in CrawlerWorkers : HandleFailure(w) /\ UNCHANGED <<casinoVars, scriptVars>>
    \/ \E w \in CrawlerWorkers : WakeUp(w) /\ UNCHANGED <<casinoVars, scriptVars>>

vars == <<crawlerVars, casinoVars, scriptVars>>

\* api.py alone: its request threads and crawler threads, in two processes
Spec == Init /\ [][Next]_vars

----------------------------------------------------------------------------
(* src/crawler/casino_worker.py                                            *)

CASINO_KEYWORDS ==
    << <<"casino">>, <<"gambling">>, <<"betting">>, <<"slots">>, <<"poker">>,
       <<"blackjack">>, <<"roulette">>, <<"sportsbook">>, <<"sports", " ", "betting">> >>

\* str.lower on the words of HomePages
LowerWord(t) ==
    CASE t = "Casino" -> "casino"
      [] t = "Sports" -> "sports"
      [] t = "Betting" -> "betting"
      [] t = "Shop" -> "shop"
      [] t = "Free" -> "free"
      [] t = "Spins" -> "spins"
      [] OTHER -> t

lower(text) == [i \in 1..Len(text) |-> LowerWord(text[i])]

\* keyword in text
contains(text, keyword) ==
    \E i \in 1..Len(text) :
        /\ i + Len(keyword) - 1 <= Len(text)
        /\ SubSeq(text, i, i + Len(keyword) - 1) = keyword

\* casino_worker.py:34-36
is_casino_content(text) ==
    LET t == lower(text) IN
    \E n \in 1..Len(CASINO_KEYWORDS) : contains(t, CASINO_KEYWORDS[n])

\* an element that is not in the page; a <title> whose .string is None
NoTag == <<"(no tag)">>
NoString == <<"(no string)">>

\* what requests.get("https://{domain}") can give: an exception, or a response with
\* a status and a page: its <title> (absent, without a .string, or a text) and its
\* <meta name="description"> (absent, or a content)
Response(status, title, description) ==
    [status |-> status, title |-> title, description |-> description]

HomePages ==
    { Response("ConnectionError", NoTag, NoTag),
      Response("404", <<"Casino">>, NoTag),
      Response("200", <<" ", "Casino", " ">>, NoTag),
      Response("200", <<"Shop">>, <<"Sports", " ", "Betting">>),
      Response("200", NoTag, <<"Shop">>),
      Response("200", NoString, NoTag) }

\* casino_worker.py:38-72: returns None, returns the dict, or AttributeError leaves
\* line 58
enrich_domain(resp) ==
    IF resp.status # "200" THEN [kind |-> "None"]
    ELSE IF resp.title = NoString THEN [kind |-> "AttributeError"]
    ELSE LET title == IF resp.title = NoTag THEN <<>> ELSE strip(resp.title)
             description == IF resp.description = NoTag THEN <<>>
                            ELSE strip(resp.description)
         IN  [kind |-> "dict", meta_title |-> title, meta_description |-> description,
              is_casino |-> is_casino_content(title \o <<" ">> \o description)]

\* SELECT commercial_domain FROM commercial_sites WHERE meta_title IS NULL (LIMIT 1,
\* no ORDER BY: any such row)
Unenriched(sites) == {d \in DOMAIN sites : sites[d].meta_title = NULL}

\* casino_worker.py:79-93
CasinoSelect(k) ==
    /\ cpc[k] = "loop"
    /\ \/ /\ \E d \in Unenriched(commercial_sites) : casino_row' = [casino_row EXCEPT ![k] = d]
          /\ cpc' = [cpc EXCEPT ![k] = "selected"]
       \/ \* no row: time.sleep(10); continue
          /\ Unenriched(commercial_sites) = {}
          /\ cpc' = [cpc EXCEPT ![k] = "sleep"]
          /\ UNCHANGED casino_row
       \/ \* get_conn or execute raises: caught at line 137, time.sleep(5)
          /\ cpc' = [cpc EXCEPT ![k] = "sleep"]
          /\ UNCHANGED casino_row
    /\ UNCHANGED <<crawlerVars, result>>

\* casino_worker.py:95-98
CasinoEnrich(k) ==
    /\ cpc[k] = "selected"
    /\ \E resp \in HomePages :
          LET r == enrich_domain(resp) IN
          IF r.kind = "AttributeError"
          THEN \* caught at line 137, time.sleep(5)
               /\ cpc' = [cpc EXCEPT ![k] = "sleep"]
               /\ casino_row' = [casino_row EXCEPT ![k] = NoRow]
               /\ UNCHANGED result
          ELSE /\ cpc' = [cpc EXCEPT ![k] = "enriched"]
               /\ result' = [result EXCEPT ![k] = r]
               /\ UNCHANGED casino_row
    /\ UNCHANGED crawlerVars

\* UPDATE commercial_sites SET meta_title, meta_description, is_casino WHERE commercial_domain = d
UpdateSite(sites, d, title, description, casino) ==
    [e \in DOMAIN sites |->
        IF e = d THEN [sites[e] EXCEPT !.meta_title = title,
                                       !.meta_description = description,
                                       !.is_casino = casino]
        ELSE sites[e]]

\* casino_worker.py:100-133: the UPDATE the result asks for
WriteResult(sites, d, r) ==
    IF r.kind = "None"
    THEN UpdateSite(sites, d, <<>>, <<>>, FALSE)
    ELSE UpdateSite(sites, d, r.meta_title, r.meta_description, r.is_casino)

\* casino_worker.py:100-135
CasinoWrite(k) ==
    /\ cpc[k] = "enriched"
    /\ \/ /\ commercial_sites' = WriteResult(commercial_sites, casino_row[k], result[k])
          /\ cpc' = [cpc EXCEPT ![k] = "loop"]
       \/ \* the UPDATE or the commit raises: caught at line 137, time.sleep(5)
          /\ cpc' = [cpc EXCEPT ![k] = "sleep"]
          /\ UNCHANGED commercial_sites
    /\ casino_row' = [casino_row EXCEPT ![k] = NoRow]
    /\ result' = [result EXCEPT ![k] = NoResult]
    /\ UNCHANGED <<blog_pages, outbound_links, DB_LOCK, pc, blog, links, exc>>

\* casino_worker.py:92, 139: the sleep is over
CasinoWake(k) ==
    /\ cpc[k] = "sleep"
    /\ cpc' = [cpc EXCEPT ![k] = "loop"]
    /\ UNCHANGED <<crawlerVars, casino_row, result>>

\* the database once api.py has crawled RootA, whatever its page held, and RootB
InitCasino ==
    /\ \E ca, cb \in PageContents :
          LET ta == RecordLinks(ca, 1, RootA, << <<>>, <<>> >>)
              tb == RecordLinks(cb, 2, RootB, ta)
          IN  /\ tb[2] # <<>>
              /\ outbound_links = tb[1]
              /\ commercial_sites = tb[2]
    /\ blog_pages = SetStatus(SetStatus(InsertRoot(InsertRoot(<<>>, RootA), RootB),
                                        1, "done"), 2, "done")
    /\ DB_LOCK = [p \in Procs |-> Free]
    /\ pc = [w \in CrawlerWorkers |-> "sleep"]
    /\ blog = [w \in CrawlerWorkers |-> NoBlog]
    /\ links = [w \in CrawlerWorkers |-> NoLinks]
    /\ exc = [w \in CrawlerWorkers |-> None]
    /\ InitCasinoWorkers
    /\ InitScripts

\* a step of a casino_worker process
NextCasino ==
    \/ \E k \in CasinoWorkers : CasinoSelect(k) /\ UNCHANGED scriptVars
    \/ \E k \in CasinoWorkers : CasinoEnrich(k) /\ UNCHANGED scriptVars
    \/ \E k \in CasinoWorkers : CasinoWrite(k) /\ UNCHANGED scriptVars
    \/ \E k \in CasinoWorkers : CasinoWake(k) /\ UNCHANGED scriptVars

\* casino_worker.py run twice over a crawled database
SpecCasino == InitCasino /\ [][NextCasino]_vars

----------------------------------------------------------------------------
(* The MySQL scripts.  One script runs at a time, on one connection: the   *)
(* rows it has inserted are visible to its own SELECTs and are committed   *)
(* by its last statement.                                                  *)

\* insert_and_read_blog.py:5
BLOG_URL == <<"https://", "example.com">>

\* how many runs of extract_commercial_links.py, whose table only grows
MaxExtractRuns == 1

\* insert_and_read_blog.py:8-26: INSERT IGNORE INTO blogs (blog_url is UNIQUE)
insert_and_read_blog ==
    /\ script = NoScript
    /\ blogs' = IF \E i \in RowIds(blogs) : blogs[i].blog_url = BLOG_URL
                THEN blogs
                ELSE Append(blogs, [blog_url |-> BLOG_URL,
                                    domain |-> remove(netloc(BLOG_URL), {"www."})])
    /\ UNCHANGED <<my_blog_pages, commercial_links, page_outbound_links,
                   commercial_site_analysis, script, runs>>

Page1 == <<"https://", "example.com", "/", "p1">>
Page2 == <<"https://", "example.com", "/", "p2">>
CasinoX == <<"https://", "www.", "casino-x.test", "/", "bonus">>
ShopT == <<"http://", "shop.test">>

\* the anchors of the blog's homepage
HomeAnchors ==
    << Anchor(<<"/", "p1">>, {}, <<>>),
       Anchor(Page2 \o <<"/">>, {}, <<>>),
       Anchor(<<"/">>, {}, <<>>),
       Anchor(ShopT, {}, <<>>) >>

\* the anchors of the blog's pages
PageAnchors(page_url) ==
    IF page_url = Page1
    THEN << Anchor(CasinoX, {}, <<>>),
            Anchor(<<"https://", "www.", "example.com", "/", "about">>, {}, <<>>),
            Anchor(<<"/", "p2">>, {}, <<>>),
            Anchor(CasinoX, {}, <<>>) >>
    ELSE << Anchor(ShopT, {"nofollow"}, <<>>),
            Anchor(CasinoX \o <<"?", "ref=1">>, {"sponsored"}, <<>>) >>

\* what requests.get(page_url) can give: a response of some status, or an exception
PageFetches == {"200", "404", "exception"}

\* the anchors of the body a 404 response carries
ErrorPageAnchors == << Anchor(ShopT, {}, <<>>) >>

\* urlparse(url).path: from the first "/" after the netloc, up to a "?" or "#"
RECURSIVE before_query(_)
before_query(s) ==
    IF s = <<>> \/ Head(s) \in {"?", "#"} THEN <<>>
    ELSE <<Head(s)>> \o before_query(Tail(s))

parsed_path(url) == before_query(url_path(url))

\* crawl_blog_basic.py:50-64
internal_pages(blog_url, anchors) ==
    { <<url_scheme(u)>> \o netloc(u) \o rstrip(parsed_path(u), {"/"}) :
        u \in { v \in {urljoin(blog_url, strip(anchors[i].href)) : i \in 1..Len(anchors)} :
                   /\ netloc(v) = netloc(blog_url)
                   /\ parsed_path(v) \notin {<<>>, <<"/">>} } }

\* InsertPages as a bug would have it: the INSERT without the SELECT before it
RECURSIVE InsertPages_NoSelect(_, _, _)
InsertPages_NoSelect(table, blog_id, urls) ==
    IF urls = <<>> THEN table
    ELSE InsertPages_NoSelect(
            Append(table, [blog_id |-> blog_id, page_url |-> Head(urls),
                           post_date |-> "today"]),
            blog_id, Tail(urls))

\* crawl_blog_basic.py:72-86, over the pages in the order the set gives them
RECURSIVE InsertPages(_, _, _)
InsertPages(table, blog_id, urls) ==
    IF urls = <<>> THEN table
    ELSE InsertPages(
            IF \E i \in RowIds(table) :
                  table[i].blog_id = blog_id /\ table[i].page_url = Head(urls)
            THEN table
            ELSE Append(table, [blog_id |-> blog_id, page_url |-> Head(urls),
                                post_date |-> "today"]),
            blog_id, Tail(urls))

\* the orders in which a for loop can walk a set
Orders(S) ==
    {o \in [1..Cardinality(S) -> S] : \A i, j \in 1..Cardinality(S) : o[i] = o[j] => i = j}

\* crawl_blog_basic.py:24-88
crawl_blog_basic ==
    /\ script = NoScript
    /\ blogs # <<>>
    /\ \E resp \in PageFetches :
          IF resp = "200"
          THEN \E o \in Orders(internal_pages(rstrip(blogs[1].blog_url, {"/"}), HomeAnchors)) :
                  my_blog_pages' = InsertPages(my_blog_pages, 1, o)
          ELSE UNCHANGED my_blog_pages
    /\ UNCHANGED <<blogs, commercial_links, page_outbound_links,
                   commercial_site_analysis, script, runs>>

\* SELECT ... FROM blog_pages bp JOIN blogs b ON bp.blog_id = b.id
PagesJoinBlogs ==
    [i \in RowIds(my_blog_pages) |->
        [page_id |-> i, blog_id |-> my_blog_pages[i].blog_id,
         page_url |-> my_blog_pages[i].page_url,
         blog_url |-> blogs[my_blog_pages[i].blog_id].blog_url]]

\* extract_commercial_links.py:16-28
StartExtract ==
    /\ script = NoScript
    /\ runs < MaxExtractRuns
    /\ runs' = runs + 1
    /\ script' = [name |-> "extract_commercial_links", todo |-> PagesJoinBlogs, r |-> None]
    /\ UNCHANGED <<blogs, my_blog_pages, commercial_links, page_outbound_links,
                   commercial_site_analysis>>

\* extract_commercial_links.py:41-54: the rows the anchors of one page add
RECURSIVE ExtractLinks(_, _, _, _)
ExtractLinks(table, page_id, blog_domain, anchors) ==
    IF anchors = <<>> THEN table
    ELSE LET href == Head(anchors).href
             rel == Head(anchors).rel
         IN  ExtractLinks(
                IF netloc(href) # <<>> /\ netloc(href) # blog_domain
                THEN Append(table, [page_id |-> page_id, commercial_url |-> href,
                                    is_dofollow |-> IF "nofollow" \in rel THEN 0 ELSE 1])
                ELSE table,
                page_id, blog_domain, Tail(anchors))

\* extract_commercial_links.py:30-54: one turn of the loop over pages
StepExtract ==
    /\ script.name = "extract_commercial_links"
    /\ script.todo # <<>>
    /\ LET page == Head(script.todo) IN
       \E resp \in PageFetches :
          /\ commercial_links' =
                IF resp = "exception" THEN commercial_links
                ELSE ExtractLinks(commercial_links, page.page_id, netloc(page.blog_url),
                                  IF resp = "200" THEN PageAnchors(page.page_url)
                                  ELSE ErrorPageAnchors)
          /\ script' = [script EXCEPT !.todo = Tail(script.todo), !.r = resp]
    /\ UNCHANGED <<blogs, my_blog_pages, page_outbound_links, commercial_site_analysis, runs>>

\* crawl_page_outbound_links.py:20-27
StartOutbound ==
    /\ script = NoScript
    /\ script' = [name |-> "crawl_page_outbound_links", todo |-> PagesJoinBlogs,
                  r |-> None]
    /\ UNCHANGED <<blogs, my_blog_pages, commercial_links, page_outbound_links,
                   commercial_site_analysis, runs>>

\* crawl_page_outbound_links.py:45-67: the rows the anchors of one page add
RECURSIVE OutboundLinks(_, _, _, _, _)
OutboundLinks(table, blog_id, page_url, blog_domain, anchors) ==
    IF anchors = <<>> THEN table
    ELSE LET full_url == urljoin(page_url, Head(anchors).href)
             clean_url == <<url_scheme(full_url)>> \o netloc(full_url) \o parsed_path(full_url)
         IN  OutboundLinks(
                IF \/ netloc(full_url) = <<>>
                   \/ netloc(full_url) = blog_domain
                   \/ \E i \in RowIds(table) :
                         table[i].page_url = page_url /\ table[i].outbound_url = clean_url
                THEN table
                ELSE Append(table, [blog_id |-> blog_id, page_url |-> page_url,
                                    outbound_url |-> clean_url]),
                blog_id, page_url, blog_domain, Tail(anchors))

\* crawl_page_outbound_links.py:31-67: one turn of the loop over pages
StepOutbound ==
    /\ script.name = "crawl_page_outbound_links"
    /\ script.todo # <<>>
    /\ LET page == Head(script.todo) IN
       \E resp \in PageFetches :
          /\ page_outbound_links' =
                IF resp = "200"
                THEN OutboundLinks(page_outbound_links, page.blog_id, page.page_url,
                                   netloc(page.blog_url), PageAnchors(page.page_url))
                ELSE page_outbound_links
          /\ script' = [script EXCEPT !.todo = Tail(script.todo), !.r = resp]
    /\ UNCHANGED <<blogs, my_blog_pages, commercial_links, commercial_site_analysis, runs>>

\* detect_casino_sites.py:6-10
DETECT_KEYWORDS ==
    << <<"casino">>, <<"bet">>, <<"betting">>, <<"gambling">>, <<"slots">>,
       <<"poker">>, <<"roulette">>, <<"blackjack">>, <<"jackpot">>,
       <<"sportsbook">>, <<"wager">>, <<"odds">>, <<"bonus">>, <<"free", " ", "spins">> >>

\* SELECT DISTINCT commercial_url FROM commercial_links
RECURSIVE Distinct(_, _)
Distinct(rows, seen) ==
    IF rows = <<>> THEN <<>>
    ELSE IF Head(rows).commercial_url \in seen THEN Distinct(Tail(rows), seen)
    ELSE <<Head(rows).commercial_url>>
            \o Distinct(Tail(rows), seen \cup {Head(rows).commercial_url})

\* detect_casino_sites.py:22-29
StartDetect ==
    /\ script = NoScript
    /\ script' = [name |-> "detect_casino_sites", todo |-> Distinct(commercial_links, {}),
                  r |-> None]
    /\ UNCHANGED <<blogs, my_blog_pages, commercial_links, page_outbound_links,
                   commercial_site_analysis, runs>>

\* what requests.get(homepage) can give: an exception, or a page (of any status):
\* its <title>, its <meta name="description"> and the text soup.get_text gives
Homepage(title, description, body) ==
    [kind |-> "page", title |-> title, description |-> description, body |-> body]

DetectFetches ==
    { [kind |-> "exception"],
      Homepage(<<"Casino">>, NoTag, <<"Casino", " ", "Free", " ", "Spins">>),
      Homepage(NoTag, <<"Shop">>, <<"Shop">>),
      Homepage(<<"503">>, NoTag, <<"503">>) }

BodyMax == 3000

\* detect_casino_sites.py:41-50
detect_text(r) ==
    (IF r.title # NoTag THEN lower(r.title) \o <<" ">> ELSE <<>>)
    \o (IF r.description # NoTag /\ r.description # <<>>
        THEN lower(r.description) \o <<" ">> ELSE <<>>)
    \o SubSeq(lower(r.body), 1, IF Len(r.body) < BodyMax THEN Len(r.body) ELSE BodyMax)

\* detect_casino_sites.py:52
RECURSIVE matched(_, _)
matched(text, keywords) ==
    IF keywords = <<>> THEN <<>>
    ELSE (IF contains(text, Head(keywords)) THEN <<Head(keywords)>> ELSE <<>>)
            \o matched(text, Tail(keywords))

\* detect_casino_sites.py:55-62: INSERT ... ON DUPLICATE KEY UPDATE
UpsertAnalysis(table, d, is_casino, matched_keywords) ==
    [e \in DOMAIN table \cup {d} |->
        IF e = d THEN [commercial_domain |-> d, is_casino |-> is_casino,
                       matched_keywords |-> matched_keywords]
        ELSE table[e]]

\* detect_casino_sites.py:31-64: one turn of the loop over urls
StepDetect ==
    /\ script.name = "detect_casino_sites"
    /\ script.todo # <<>>
    /\ LET d == remove(netloc(Head(script.todo)), {"www."}) IN
       \E r \in DetectFetches :
          /\ commercial_site_analysis' =
                IF r.kind = "exception" THEN commercial_site_analysis
                ELSE LET m == matched(detect_text(r), DETECT_KEYWORDS) IN
                     UpsertAnalysis(commercial_site_analysis, d,
                                    IF m # <<>> THEN 1 ELSE 0, m)
          /\ script' = [script EXCEPT !.todo = Tail(script.todo), !.r = r.kind]
    /\ UNCHANGED <<blogs, my_blog_pages, commercial_links, page_outbound_links, runs>>

\* the loop is over: commit, close
FinishScript ==
    /\ script # NoScript
    /\ script.todo = <<>>
    /\ script' = NoScript
    /\ UNCHANGED <<blogs, my_blog_pages, commercial_links, page_outbound_links,
                   commercial_site_analysis, runs>>

\* a step of the script that is running, or the start of one
NextScripts ==
    \/ insert_and_read_blog /\ UNCHANGED <<crawlerVars, casinoVars>>
    \/ crawl_blog_basic /\ UNCHANGED <<crawlerVars, casinoVars>>
    \/ StartExtract /\ UNCHANGED <<crawlerVars, casinoVars>>
    \/ StepExtract /\ UNCHANGED <<crawlerVars, casinoVars>>
    \/ StartOutbound /\ UNCHANGED <<crawlerVars, casinoVars>>
    \/ StepOutbound /\ UNCHANGED <<crawlerVars, casinoVars>>
    \/ StartDetect /\ UNCHANGED <<crawlerVars, casinoVars>>
    \/ StepDetect /\ UNCHANGED <<crawlerVars, casinoVars>>
    \/ FinishScript /\ UNCHANGED <<crawlerVars, casinoVars>>

\* the MySQL scripts, run one after the other in any order, any number of times
SpecScripts == Init /\ [][NextScripts]_vars

\* C4: the stored is_casino flag of a domain is sticky: once true, no later write
\* of any enrichment step sets it back to false.
C4_StickyCasino ==
    [][\A d \in DOMAIN commercial_sites :
          commercial_sites[d].is_casino = TRUE => commercial_sites'[d].is_casino = TRUE]_vars

\* C9: once a domain is checked (its meta fields written) no casino_worker fetches
\* its homepage again: every fetch is of a domain whose meta_title is still NULL.
C9_NoRefetchOfChecked ==
    [][\A k \in CasinoWorkers :
          (cpc[k] = "selected" /\ cpc'[k] # "selected") =>
              commercial_sites[casino_row[k]].meta_title = NULL]_vars

----------------------------------------------------------------------------
(* The crawl-status state machine.                                         *)

\* workers past the claim's commit and not yet through with the root
Processing(w) == pc[w] \in {"crawling", "parsed", "except"}

\* C1: no root page is ever claimed by two workers: at most one worker is
\* processing a given root at any time, for threads of one process and for
\* separate processes sharing the database.
C1_NoDoubleClaim ==
    \A w1, w2 \in CrawlerWorkers :
        (w1 # w2 /\ Processing(w1) /\ Processing(w2)) => blog[w1].id # blog[w2].id

StatusSteps ==
    { <<"pending", "in_progress">>, <<"in_progress", "done">>, <<"in_progress", "failed">> }

\* C2: the only status changes of a root are pending -> in_progress,
\* in_progress -> done and in_progress -> failed; done and failed never change.
C2_StatusMonotonic ==
    [][\A i \in RowIds(blog_pages) :
          \/ blog_pages'[i].crawl_status = blog_pages[i].crawl_status
          \/ <<blog_pages[i].crawl_status, blog_pages'[i].crawl_status>> \in StatusSteps]_vars

\* C3: a failed root is never selected by a later worker iteration: no step puts a
\* root that has left pending (failed included) back to pending, re-registration
\* included, and the worker's SELECT only ever returns a root that is pending.
C3_FailedNeverSelected ==
    [][\A i \in RowIds(blog_pages) :
          /\ blog_pages[i].crawl_status # "pending" =>
                blog_pages'[i].crawl_status # "pending"
          /\ \A w \in CrawlerWorkers :
                (pc[w] = "loop" /\ pc'[w] = "selected" /\ blog'[w].id = i) =>
                    blog_pages[i].crawl_status = "pending"]_vars

\* a root has failed and, with it failed, a worker has selected another root
C3_Witness ==
    \E i \in RowIds(blog_pages), w \in CrawlerWorkers :
        /\ blog_pages[i].crawl_status = "failed"
        /\ pc[w] = "selected"
        /\ blog[w].id > i

\* the OutboundLink rows whose target URL normalizes to domain d
RowsOfDomain(d) == {i \in RowIds(outbound_links) : extract_domain(outbound_links[i].url) = d}

\* C6: for every CommercialSite the reported total_links equals the number of
\* OutboundLink rows whose target domain is that site's domain; no recorded link
\* is missed by the aggregate and none is counted twice.
C6_AggregateConsistent ==
    /\ \A d \in DOMAIN commercial_sites :
          /\ Cardinality({r \in export_output_2 : r.commercial_domain = d}) = 1
          /\ \A r \in export_output_2 :
                r.commercial_domain = d => r.total_links = Cardinality(RowsOfDomain(d))
    /\ \A i \in RowIds(outbound_links) :
          extract_domain(outbound_links[i].url) \in DOMAIN commercial_sites

\* two roots were crawled and a site is reported with two links, a www. one with one
C6_Witness ==
    /\ \E r \in export_output_2 : r.total_links = 2
    /\ \E i \in RowIds(outbound_links) :
          outbound_links[i].url # <<>> /\ "www." \in {outbound_links[i].url[k] :
                                                        k \in 1..Len(outbound_links[i].url)}

RootRows(u) == {i \in RowIds(blog_pages) : blog_pages[i].blog_url = u /\ blog_pages[i].is_root}

\* the blog_url a request body stands for (api.py:86)
RequestedUrls == {rstrip(strip(req), {"/"}) : req \in CrawlRequests}

\* C7: POST /crawl is idempotent: no URL ever has two root rows, and a step of
\* /crawl (the steps that move no worker thread) either changes no table at all or
\* appends one pending root row for a valid URL that had no row; the rows there
\* before, their crawl_status included, stay as they were.
C7_RegisterIdempotent ==
    [][/\ \A u \in RequestedUrls : Cardinality(RootRows(u)') <= 1
       /\ (pc' = pc /\ blog_pages' # blog_pages) =>
             /\ Len(blog_pages') = Len(blog_pages) + 1
             /\ SubSeq(blog_pages', 1, Len(blog_pages)) = blog_pages
             /\ LET row == blog_pages'[Len(blog_pages')] IN
                   /\ row.blog_url \in RequestedUrls
                   /\ is_valid_url(row.blog_url)
                   /\ RootRows(row.blog_url) = {}
                   /\ row.is_root
                   /\ row.crawl_status = "pending"
       /\ pc' = pc => UNCHANGED <<outbound_links, commercial_sites, DB_LOCK, blog, links, exc>>]_vars

\* a root registered earlier has been crawled to the end and /crawl can be called again
C7_Witness ==
    /\ RootRows(RootA) # {}
    /\ \A i \in RootRows(RootA) : blog_pages[i].crawl_status = "done"
    /\ \E p \in Procs : ENABLED crawl_blog(p, RootA \o <<"/">>)

RootFailures == {"Unreachable", "ConnectionError", "DatabaseError"}

C10_NoSameDomainLink ==
    \A i \in RowIds(outbound_links) :
        extract_domain(outbound_links[i].url) #
            extract_domain(blog_pages[outbound_links[i].blog_page_id].blog_url)

\* C5: link recording is insert-if-absent: whatever runs and re-runs recorded them,
\* each table of links holds one row per (source page, target URL) pair.
C5_OneRowPerLink ==
    /\ \A i, j \in RowIds(outbound_links) :
          (outbound_links[i].blog_page_id = outbound_links[j].blog_page_id
           /\ outbound_links[i].url = outbound_links[j].url) => i = j
    /\ \A i, j \in RowIds(page_outbound_links) :
          (page_outbound_links[i].page_url = page_outbound_links[j].page_url
           /\ page_outbound_links[i].outbound_url = page_outbound_links[j].outbound_url) => i = j
    /\ \A i, j \in RowIds(commercial_links) :
          (commercial_links[i].page_id = commercial_links[j].page_id
           /\ commercial_links[i].commercial_url = commercial_links[j].commercial_url) => i = j

----------------------------------------------------------------------------
(* Link filtering and link attributes.                                     *)

\* the social/platform deny-list, as normalized domains
SOCIAL_DOMAINS ==
    { <<"facebook.com">>, <<"twitter.com">>, <<"x.com">>, <<"instagram.com">>,
      <<"youtube.com">>, <<"linkedin.com">>, <<"pinterest.com">>, <<"reddit.com">>,
      <<"tiktok.com">>, <<"whatsapp.com">>, <<"telegram.org">> }

\* C11: a link whose resolved domain is on the social/platform deny-list is never
\* recorded as an OutboundLink and never creates a CommercialSite row.
C11_NoSocialLink ==
    /\ \A i \in RowIds(outbound_links) :
          extract_domain(outbound_links[i].url) \notin SOCIAL_DOMAINS
    /\ \A d \in DOMAIN commercial_sites : d \notin SOCIAL_DOMAINS

----------------------------------------------------------------------------
(* Page discovery.                                                         *)

\* the page_url values stored for the blog
StoredPages == {my_blog_pages[i].page_url : i \in RowIds(my_blog_pages)}

\* C12: page discovery is idempotent: over an unchanged homepage every run of
\* crawl_blog_basic.py leaves the same page set, one row per page, and a run that
\* finds the pages already stored inserts nothing.
C12_IdempotentDiscovery ==
    [][/\ \A i, j \in RowIds(my_blog_pages') :
             (my_blog_pages'[i].blog_id = my_blog_pages'[j].blog_id
              /\ my_blog_pages'[i].page_url = my_blog_pages'[j].page_url) => i = j
       /\ StoredPages' \in {{}, internal_pages(BLOG_URL, HomeAnchors)}
       /\ my_blog_pages # <<>> => my_blog_pages' = my_blog_pages]_vars

\* a run has stored the two pages of the blog and the script can be run again
C12_Witness ==
    /\ StoredPages = {Page1, Page2}
    /\ Len(my_blog_pages) = 2
    /\ ENABLED crawl_blog_basic

\* the rel values that make a link nofollow
NOFOLLOW_RELS == {"nofollow", "ugc", "sponsored"}

\* the anchors of a page that resolve to url and are not skipped
AnchorsOf(as, blog_url, url) ==
    {n \in 1..Len(as) : /\ ~SkipHref(strip(as[n].href))
                         /\ urljoin(blog_url, strip(as[n].href)) = url}

\* C14: every recorded OutboundLink has is_dofollow = true unless the rel attribute
\* of the anchor it was recorded from (the first of the page with that URL)
\* contains nofollow, ugc or sponsored, and then is_dofollow = false.
C14_DofollowFromRel ==
    [][\A w \in CrawlerWorkers :
          (pc[w] = "parsed" /\ pc'[w] = "sleep") =>
             \A i \in RowIds(outbound_links') \ RowIds(outbound_links) :
                LET found == AnchorsOf(links[w], blog[w].blog_url, outbound_links'[i].url)
                    first == CHOOSE n \in found : \A m \in found : n <= m
                IN  outbound_links'[i].is_dofollow =
                       (links[w][first].rel \cap NOFOLLOW_RELS = {})]_vars

\* the scripts whose loop fetches one blog page per turn
PageLoops == {"extract_commercial_links", "crawl_page_outbound_links"}

\* C13: a page whose fetch fails (an exception, a status other than 200) is skipped:
\* the turn of the loop records nothing for it, keeps every row recorded for the
\* pages before it and goes on to the pages after it.
C13_FailedPageSkipped ==
    [][(script.name \in PageLoops /\ script'.name = script.name
        /\ script'.todo # script.todo) =>
          /\ script'.todo = Tail(script.todo)
          /\ SubSeq(commercial_links', 1, Len(commercial_links)) = commercial_links
          /\ SubSeq(page_outbound_links', 1, Len(page_outbound_links)) = page_outbound_links
          /\ script'.r # "200" =>
                /\ commercial_links' = commercial_links
                /\ page_outbound_links' = page_outbound_links]_vars

----------------------------------------------------------------------------
(* The worker loop.                                                        *)

\* C15: crawler_worker_single returns null only when no pending root existed, so
\* a worker thread goes to its fixed sleep only from a SELECT that found no pending
\* root; after a root it has processed it goes straight to the next iteration.
C15_SleepOnlyWhenIdle ==
    [][\A w \in CrawlerWorkers :
          (pc[w] # "sleep" /\ pc'[w] = "sleep") =>
              /\ pc[w] = "loop"
              /\ PendingRoots(blog_pages) = {}]_vars

\* C16: roots are claimed in registration order: whenever a worker claims a root
\* (the UPDATE to in_progress), that root is the pending root with the earliest
\* first_crawled, so no root registered earlier is still pending.
C16_ClaimsOldestPending ==
    [][\A w \in CrawlerWorkers :
          (pc[w] = "selected" /\ pc'[w] = "crawling") =>
              blog[w].id \in SelectPendingRoot(blog_pages)]_vars

\* C18: links become visible only together with success: every root that has an
\* outbound_links row has crawl_status = done, and a step that ends a crawl in
\* failed leaves outbound_links and commercial_sites as they were.
C18_LinksOnlyWithDone ==
    [][/\ \A i \in RowIds(outbound_links') :
             blog_pages'[outbound_links'[i].blog_page_id].crawl_status = "done"
       /\ (\E r \in RowIds(blog_pages) :
              /\ blog_pages[r].crawl_status # "failed"
              /\ blog_pages'[r].crawl_status = "failed") =>
             UNCHANGED <<outbound_links, commercial_sites>>]_vars

\* a step of crawler thread w
WorkerStep(w) ==
    \/ SelectPending(w)
    \/ ClaimUpdate(w)
    \/ Fetch(w)
    \/ WriteLinks(w)
    \/ HandleFailure(w)
    \/ WakeUp(w)

\* the positions of a crawler thread
PcValues == {"loop", "selected", "crawling", "parsed", "except", "sleep", "dead"}

\* thread w can take a step: it has not ended and, where its next statement is
\* `with DB_LOCK`, the lock of its process is free
CanRun(w) ==
    /\ pc[w] # "dead"
    /\ pc[w] \in {"loop", "parsed", "except"} => DB_LOCK[ProcOf(w)] = Free

\* thread w runs: it takes a step, which moves pc[w] (every step of a thread moves
\* its pc, and nothing else moves it)
Runs(w) ==
    /\ CanRun(w)
    /\ \E v \in PcValues \ {pc[w]} : pc' = [pc EXCEPT ![w] = v]

\* api.py with its threads scheduled fairly: a thread that can run again and again
\* (the lock it waits for is free again and again) does run
SpecFair ==
    /\ Init
    /\ [][Next]_vars
    /\ \A w \in CrawlerWorkers : SF_pc(Runs(w))

\* the ids the root rows can take: one per URL that /crawl accepts
RootIds == 1..Cardinality({u \in RequestedUrls : is_valid_url(u)})

Registered(i) == i \in RowIds(blog_pages)

Finished(i) == Registered(i) /\ blog_pages[i].crawl_status \in {"done", "failed"}

\* C19: with the worker threads running fairly, every root registered as pending is
\* eventually claimed and eventually done or failed: no root stays pending or
\* in_progress forever.
C19_RootsFinish ==
    \A i \in RootIds :
        Registered(i) ~> Finished(i)

----------------------------------------------------------------------------
(* Enrichment.                                                             *)

\* the row of a domain holds the empty fields the failure branch writes
MarkedChecked(d) ==
    /\ d \notin Unenriched(commercial_sites)
    /\ commercial_sites[d].meta_title = <<>>
    /\ commercial_sites[d].meta_description = <<>>

\* C17: when enrich_domain returns no result for a domain, casino_worker writes
\* empty meta_title and meta_description for it; from then on the domain does not
\* satisfy the gate meta_title IS NULL and is never retried: no worker fetches its
\* homepage again.
C17_MarkCheckedAfterFailure ==
    [][/\ \A k \in CasinoWorkers :
             /\ (cpc[k] = "enriched" /\ result[k].kind = "None" /\ cpc'[k] = "loop") =>
                    /\ casino_row[k] \notin Unenriched(commercial_sites')
                    /\ commercial_sites'[casino_row[k]].meta_title = <<>>
                    /\ commercial_sites'[casino_row[k]].meta_description = <<>>
             /\ (cpc[k] = "selected" /\ cpc'[k] # "selected") =>
                    ~MarkedChecked(casino_row[k])
       /\ \A d \in DOMAIN commercial_sites :
             d \notin Unenriched(commercial_sites) => d \notin Unenriched(commercial_sites')]_vars

\* a step of casino_worker process k
CasinoStep(k) ==
    \/ CasinoSelect(k)
    \/ CasinoEnrich(k)
    \/ CasinoWrite(k)
    \/ CasinoWake(k)

\* casino_worker.py with its processes scheduled fairly: a process never waits for
\* another, so one that can step does
SpecCasinoFair ==
    /\ InitCasino
    /\ [][NextCasino]_vars
    /\ \A k \in CasinoWorkers : WF_vars(CasinoStep(k) /\ UNCHANGED scriptVars)

\* the domains the crawled pages can have put into commercial_sites
LinkDomains ==
    UNION { { LinkRow(1, RootA, c[n]).commercial_domain :
                n \in {m \in 1..Len(c) : ~SkipHref(strip(c[m].href))} } : c \in PageContents }
    \cup
    UNION { { LinkRow(2, RootB, c[n]).commercial_domain :
                n \in {m \in 1..Len(c) : ~SkipHref(strip(c[m].href))} } : c \in PageContents }

\* C20: with the casino_worker processes running fairly, every commercial_sites row
\* with meta_title NULL eventually gets a meta_title that is not NULL; no domain is
\* selected again and again without its row ever being written.
C20_DomainsGetChecked ==
    \A d \in LinkDomains :
        (d \in Unenriched(commercial_sites)) ~>
            (d \in DOMAIN commercial_sites /\ d \notin Unenriched(commercial_sites))

====
